---- MODULE Spec2Model ----
(***************************************************************************)
(* A model of piston's diff-to-structured-change pipeline                  *)
(* (src/src/parsing.py): parse_diff_patch, parse_line, get_language_parser *)
(* and is_language_supported.                                              *)
(*                                                                         *)
(* Text is a sequence of characters, each character a one-element string.  *)
(* The character "U+00E9" stands for e-acute, which UTF-8 encodes in two   *)
(* bytes.  The syntax tree the diff grammar builds from the patch bytes    *)
(* is the input: a sequence of block nodes, each holding its two filename  *)
(* nodes and its hunk nodes, each hunk holding the text of its two         *)
(* linerange nodes and, in source order, the text of the children of its   *)
(* changes node.  The order in which a query returns its captures is an    *)
(* input too (queryOrder).                                                 *)
(***************************************************************************)
EXTENDS Integers, Sequences, FiniteSets, TLC

\* ------------------------------------------------------------ bounds
\* The number of change lines of a hunk's body.
MaxLines == 3
\* The number of blocks of a patch, and of hunks of a block.
MaxBlocks == 2
MaxHunks == 2

\* ------------------------------------------------------------ text
None == <<>>
Some(x) == <<x>>

\* The characters str.strip() removes that occur in the model's texts.
Whitespace == {" "}
Digits == {"0", "1", "2", "3", "4", "5", "6", "7", "8", "9"}

RECURSIVE LStrip(_)
LStrip(s) ==
    IF s # <<>> /\ Head(s) \in Whitespace THEN LStrip(Tail(s)) ELSE s

RECURSIVE RStrip(_)
RStrip(s) ==
    IF s # <<>> /\ s[Len(s)] \in Whitespace
    THEN RStrip(SubSeq(s, 1, Len(s) - 1))
    ELSE s

\* str.strip()
Strip(s) == RStrip(LStrip(s))

\* str.startswith(c) for a one-character c
StartsWith(s, c) == s # <<>> /\ s[1] = c

\* s[1:]
DropFirst(s) == IF s = <<>> THEN <<>> ELSE Tail(s)

\* s.split(",")[0]
RECURSIVE BeforeComma(_)
BeforeComma(s) ==
    IF s = <<>> \/ Head(s) = "," THEN <<>>
    ELSE <<Head(s)>> \o BeforeComma(Tail(s))

DigitVal(c) ==
    CASE c = "0" -> 0 [] c = "1" -> 1 [] c = "2" -> 2 [] c = "3" -> 3
      [] c = "4" -> 4 [] c = "5" -> 5 [] c = "6" -> 6 [] c = "7" -> 7
      [] c = "8" -> 8 [] c = "9" -> 9

RECURSIVE DecimalValue(_)
DecimalValue(s) ==
    IF s = <<>> THEN 0
    ELSE 10 * DecimalValue(SubSeq(s, 1, Len(s) - 1)) + DigitVal(s[Len(s)])

\* int(s) on the texts of the model: a non-empty run of digits is its decimal
\* value, anything else raises ValueError (ok = FALSE).
IntOf(s) ==
    IF s # <<>> /\ \A i \in 1..Len(s) : s[i] \in Digits
    THEN [ok |-> TRUE, val |-> DecimalValue(s)]
    ELSE [ok |-> FALSE, val |-> 0]

\* int(text[1:].split(",")[0]) of a linerange node's stripped text
RangeStart(t) == IntOf(BeforeComma(DropFirst(Strip(t))))

Reverse(s) == [i \in 1..Len(s) |-> s[Len(s) + 1 - i]]

\* The order a query returns its captures in: source order, or the reverse.
QueryOrders == {"source", "reverse"}
Captures(nodes, order) == IF order = "source" THEN nodes ELSE Reverse(nodes)

\* ------------------------------------------------------------ languages
TagPython == <<"P", "y", "t", "h", "o", "n">>
TagDiff == <<"D", "i", "f", "f">>
TagLowerPython == <<"p", "y", "t", "h", "o", "n">>
TagLowerDiff == <<"d", "i", "f", "f">>
TagRuby == <<"R", "u", "b", "y">>

\* class SupportedLanguage: the member names
SupportedLanguage == {TagPython, TagDiff}

LowerChar(c) ==
    CASE c = "P" -> "p" [] c = "D" -> "d" [] c = "R" -> "r" [] OTHER -> c

\* str.lower()
Lower(s) == [i \in 1..Len(s) |-> LowerChar(s[i])]

is_language_supported(language) == language \in SupportedLanguage

\* The grammar of the parser returned, or "ValueError" when the call raises.
get_language_parser(language) ==
    IF Lower(language) = TagLowerDiff THEN "diff"
    ELSE IF Lower(language) = TagLowerPython THEN "python"
    ELSE "ValueError"

\* get_language_parser of language.py: the member looked up by its name.
language_get_language_parser(language) ==
    IF ~is_language_supported(language) THEN "ValueError"
    ELSE IF language = TagDiff THEN "diff"
    ELSE "python"

\* ------------------------------------------------------------ identifiers
\* The Python grammar's identifier: a start character followed by start
\* characters and digits.
IdStart == {"x", "y", "z", "U+00E9"}
IdChars == IdStart \cup Digits

\* The bytes of a character's UTF-8 encoding.
ByteLen(c) == IF c = "U+00E9" THEN 2 ELSE 1

RECURSIVE ByteLength(_)
ByteLength(s) == IF s = <<>> THEN 0 ELSE ByteLen(Head(s)) + ByteLength(Tail(s))

\* The last index of the identifier that starts at index i of line.
RECURSIVE IdEnd(_, _)
IdEnd(line, i) ==
    IF i < Len(line) /\ line[i + 1] \in IdChars THEN IdEnd(line, i + 1) ELSE i

\* The identifier nodes of the tree parsed from bytes(line, "utf8"), from
\* index i on and in source order: each node's text, and the column of its
\* start point, which counts the bytes before it.
RECURSIVE IdentifierNodes(_, _)
IdentifierNodes(line, i) ==
    IF i > Len(line) THEN <<>>
    ELSE IF line[i] \in IdStart /\ (i = 1 \/ line[i - 1] \notin IdChars)
    THEN <<[text |-> SubSeq(line, i, IdEnd(line, i)),
            column |-> ByteLength(SubSeq(line, 1, i - 1))]>>
         \o IdentifierNodes(line, IdEnd(line, i) + 1)
    ELSE IdentifierNodes(line, i + 1)

\* list.insert of x before the first element whose character is greater.
RECURSIVE InsertByCharacter(_, _)
InsertByCharacter(sorted, x) ==
    IF sorted = <<>> THEN <<x>>
    ELSE IF x.character < Head(sorted).character THEN <<x>> \o sorted
    ELSE <<Head(sorted)>> \o InsertByCharacter(Tail(sorted), x)

RECURSIVE SortedByCharacter(_)
SortedByCharacter(ids) ==
    IF ids = <<>> THEN <<>>
    ELSE InsertByCharacter(SortedByCharacter(SubSeq(ids, 1, Len(ids) - 1)),
                           ids[Len(ids)])

\* A mutant of SortIdentifiers: the captures are kept in the order returned.
SortIdentifiersNot(ids) == ids

\* identifiers.sort(key=lambda x: x.character), a stable sort
SortIdentifiers(ids) == SortedByCharacter(ids)

\* The Identifier built from one capture.
IdentifierOf(node) == [name |-> node.text, character |-> node.column]

\* A mutant of parse_line: an exception inside the try block does not
\* empty the result.
parse_lineKeepsIdentifiers(parser, line, order, fails) ==
    IF parser # "python" THEN <<>>
    ELSE LET captures == Captures(IdentifierNodes(line, 1), order)
         IN  [i \in 1..Len(captures) |-> IdentifierOf(captures[i])]

\* parse_line(parser, line) when the identifier query returns its captures
\* in the given order; fails: the parse or the query raises inside the try
\* block, and the except branch returns [].  The diff grammar has no
\* identifier node: with it the query raises.
parse_line(parser, line, order, fails) ==
    IF fails \/ parser # "python" THEN <<>>
    ELSE LET captures == Captures(IdentifierNodes(line, 1), order)
             identifiers ==
                 [i \in 1..Len(captures) |-> IdentifierOf(captures[i])]
         IN  SortIdentifiers(identifiers)

\* ------------------------------------------------------------ the inputs
\* Change lines of a hunk's body, as the text of the changes node's children.
LineContext == <<" ", "x", " ", "=", " ", "1">>
LineDeletion == <<"-", "y", " ", "=", " ", "2">>
LineAddition == <<"+", "y", " ", "=", " ", "3">>
LineAdditionTwoIds == <<"+", "z", " ", "=", " ", "y", " ", "+", " ", "1">>
LineAdditionIndented == <<"+", " ", " ", "x", " ">>
LineContextMinus == <<" ", "-", "x">>
LineAdditionTwoBytes == <<"+", "U+00E9", " ", "=", " ", "x">>
LineContextBlank == <<" ">>

LineSet ==
    {LineContext, LineDeletion, LineAddition, LineAdditionTwoIds,
     LineAdditionIndented, LineContextMinus, LineAdditionTwoBytes,
     LineContextBlank}

\* The text of the two linerange nodes of a hunk's location header; <<>> is
\* a range that is absent, or a node without text.
HeaderOneOne == [old_range |-> <<"-", "1", ",", "2">>,
                 new_range |-> <<"+", "1", ",", "3">>]
HeaderTwelveTen == [old_range |-> <<"-", "1", "2">>,
                    new_range |-> <<"+", "1", "0", ",", "4">>]
HeaderNoNewRange == [old_range |-> <<"-", "1", ",", "2">>, new_range |-> <<>>]
HeaderBadStart == [old_range |-> <<"-", "x">>,
                   new_range |-> <<"+", "1", ",", "3">>]
\* The header of a file that is new: @@ -0,0 +1,2 @@
HeaderZeroOne == [old_range |-> <<"-", "0", ",", "0">>,
                  new_range |-> <<"+", "1", ",", "2">>]

HeaderSet ==
    {HeaderOneOne, HeaderTwelveTen, HeaderNoNewRange, HeaderBadStart,
     HeaderZeroOne}

FileA == <<"a", ".", "p", "y">>
FileB == <<"b", ".", "p", "y">>
FileDevNull == <<"/", "d", "e", "v", "/", "n", "u", "l", "l">>

FilePairs == {[old_file |-> FileA, new_file |-> FileA],
              [old_file |-> FileDevNull, new_file |-> FileB]}

HunkNode(header, body) ==
    [old_range |-> header.old_range, new_range |-> header.new_range,
     body |-> body]

BlockNode(files, hunkNodes) ==
    [old_file |-> files.old_file, new_file |-> files.new_file,
     hunks |-> hunkNodes]

SeqsUpTo(S, n) == UNION {[1..k -> S] : k \in 0..n}

\* One block a.py -> a.py with one hunk: every header with every body.
LinePatches ==
    {<<BlockNode([old_file |-> FileA, new_file |-> FileA],
                 <<HunkNode(h, b)>>)>> :
        h \in HeaderSet, b \in SeqsUpTo(LineSet, MaxLines)}

\* The hunks of the patches that vary the structure.
StructHunks ==
    {HunkNode(HeaderOneOne, <<LineDeletion, LineAddition>>),
     HunkNode(HeaderTwelveTen, <<LineAddition>>),
     HunkNode(HeaderNoNewRange, <<LineAddition>>),
     HunkNode(HeaderBadStart, <<LineAddition>>),
     HunkNode(HeaderOneOne, <<>>)}

StructBlocks ==
    {BlockNode(f, hs) : f \in FilePairs, hs \in SeqsUpTo(StructHunks, MaxHunks)}

StructPatches == SeqsUpTo(StructBlocks, MaxBlocks)

\* The patches in which processing a hunk raises: blocks of hunks that yield
\* a Hunk or raise, and the one-block patches of every structure.
ErrorHunks ==
    {HunkNode(HeaderOneOne, <<LineDeletion, LineAddition>>),
     HunkNode(HeaderBadStart, <<LineAddition>>)}

ErrorBlocks ==
    {BlockNode([old_file |-> FileA, new_file |-> FileA], hs) :
        hs \in SeqsUpTo(ErrorHunks, MaxHunks)}

ErrorPatches == SeqsUpTo(ErrorBlocks, MaxBlocks) \cup SeqsUpTo(StructBlocks, 1)

\* The patch of the concrete scenario: @@ -1,2 +1,3 @@, a context line, a
\* deletion and two additions.
ScenarioPatch ==
    <<BlockNode([old_file |-> FileA, new_file |-> FileA],
                <<HunkNode(HeaderOneOne,
                           <<LineContext, LineDeletion, LineAddition,
                             LineAdditionTwoIds>>)>>)>>

LanguageTags == {TagPython, TagLowerPython, TagDiff, TagRuby}

\* The text on which identifier extraction fails internally, if any.
FailingText == DropFirst(LineAdditionTwoIds)
FailingTexts == {None, Some(FailingText)}

\* ------------------------------------------------------------ the state
VARIABLES
    patch,            \* the tree of the patch bytes
    patch_language,   \* the language tag
    failing_text,     \* the text on which identifier extraction raises
    queryOrder,       \* the order queries return their captures in
    run,              \* 1 in the first call, 2 in the call repeated
    first_result,     \* what the first call returned or raised
    pc,               \* the position in parse_diff_patch
    raised,           \* the exception that left parse_diff_patch
    parsed,           \* diff_parser.parse(patch) has run
    patch_parser,     \* the grammar of patch_parser
    hunks,            \* the list returned
    origin,           \* for each Hunk of hunks, the place of its header
    block_captures, bi,
    old_file, new_file,
    hunk_nodes, hi,
    old_line, new_line,
    changes, change_nodes, ci

vars ==
    <<patch, patch_language, failing_text, queryOrder, run, first_result, pc, raised,
      parsed, patch_parser, hunks, origin, block_captures, bi, old_file,
      new_file, hunk_nodes, hi, old_line, new_line, changes, change_nodes,
      ci>>

inputs == <<patch, patch_language, failing_text>>
blockLocals == <<old_file, new_file, hunk_nodes, hi>>
hunkLocals == <<old_line, new_line, changes, change_nodes, ci>>

\* The locals of a call before its first statement.
Entry ==
    /\ pc = "start"
    /\ raised = "none"
    /\ parsed = FALSE
    /\ patch_parser = "none"
    /\ hunks = <<>>
    /\ origin = <<>>
    /\ block_captures = <<>>
    /\ bi = 0
    /\ old_file = None
    /\ new_file = None
    /\ hunk_nodes = <<>>
    /\ hi = 0
    /\ old_line = 0
    /\ new_line = 0
    /\ changes = <<>>
    /\ change_nodes = <<>>
    /\ ci = 0

InitLines ==
    /\ \/ patch \in LinePatches /\ patch_language = TagPython
       \/ patch = ScenarioPatch /\ patch_language \in LanguageTags
    /\ failing_text \in FailingTexts
    /\ queryOrder \in QueryOrders
    /\ run = 1
    /\ first_result = None
    /\ Entry

InitStruct ==
    /\ patch \in StructPatches
    /\ patch_language = TagPython
    /\ failing_text = None
    /\ queryOrder \in QueryOrders
    /\ run = 1
    /\ first_result = None
    /\ Entry

InitErrors ==
    /\ patch \in ErrorPatches
    /\ patch_language = TagPython
    /\ failing_text = None
    /\ queryOrder \in QueryOrders
    /\ run = 1
    /\ first_result = None
    /\ Entry

Init == InitLines \/ InitStruct

\* ------------------------------------------------------------ the tree
\* The nodes a query captures, each with its start byte: here its rank in
\* the source, which orders the nodes as their byte offsets do.
Positioned(nodes) ==
    [i \in 1..Len(nodes) |-> [start_byte |-> i, node |-> nodes[i]]]

\* blocks_query.captures(tree.root_node)
BlockCaptures(tree, order) == Captures(Positioned(tree), order)

\* file_name_query.captures(block_node): the old file's name comes first in
\* the source.
FileCaptures(block, order) ==
    Captures(<<[tag |-> "old_file", text |-> block.old_file],
               [tag |-> "new_file", text |-> block.new_file]>>, order)

\* line_query.captures(hunk_node)
LineCaptures(hunk, order) ==
    Captures(<<[tag |-> "old_line", text |-> hunk.old_range],
               [tag |-> "new_line", text |-> hunk.new_range]>>, order)

\* The loop over file_captures: the stripped text of the last capture of
\* the tag that has text, None without one.
RECURSIVE FileNamed(_, _)
FileNamed(captures, tag) ==
    IF captures = <<>> THEN None
    ELSE LET last == captures[Len(captures)]
         IN  IF last.tag = tag /\ last.text # <<>>
             THEN Some(Strip(last.text))
             ELSE FileNamed(SubSeq(captures, 1, Len(captures) - 1), tag)

\* The loop over line_captures raises when int() does.
LineLoopRaises(captures) ==
    \E i \in 1..Len(captures) :
        captures[i].text # <<>> /\ ~RangeStart(captures[i].text).ok

\* The loop over line_captures: the start of the last capture of the tag
\* that has text, None without one.
RECURSIVE LineStart(_, _)
LineStart(captures, tag) ==
    IF captures = <<>> THEN None
    ELSE LET last == captures[Len(captures)]
         IN  IF last.tag = tag /\ last.text # <<>>
             THEN Some(RangeStart(last.text).val)
             ELSE LineStart(SubSeq(captures, 1, Len(captures) - 1), tag)

RECURSIVE InsertByStartByte(_, _)
InsertByStartByte(sorted, x) ==
    IF sorted = <<>> THEN <<x>>
    ELSE IF x.start_byte < Head(sorted).start_byte THEN <<x>> \o sorted
    ELSE <<Head(sorted)>> \o InsertByStartByte(Tail(sorted), x)

RECURSIVE SortedByStartByte(_)
SortedByStartByte(nodes) ==
    IF nodes = <<>> THEN <<>>
    ELSE InsertByStartByte(
             SortedByStartByte(SubSeq(nodes, 1, Len(nodes) - 1)),
             nodes[Len(nodes)])

\* sorted([node for node, _ in hunk_captures], key=lambda x: x.start_byte)
SortHunkNodes(captures) == SortedByStartByte(captures)

\* change_node.text.decode("utf8").strip() if change_node.text else ""
ChangeTextUnstripped(node) == node
ChangeText(node) == Strip(node)

\* Line numbers in the diff are 1-based, the Change's line is zero-based.
ZeroBasedNot(n) == n
ZeroBased(n) == n - 1

\* old_line += 1, new_line += 1
AdvanceTwice(n) == n + 2
Advance(n) == n + 1

Addition == "addition"
Deletion == "deletion"

Change(line, text, type, identifiers) ==
    [line |-> line, text |-> text, type |-> type, identifiers |-> identifiers]

Hunk(old, new, chs) == [old_file |-> old, new_file |-> new, changes |-> chs]

\* ------------------------------------------------------------ the steps
\* patch_parser = get_language_parser(patch_language)
\* diff_parser = get_language_parser("diff")
GetParsers ==
    /\ pc = "start"
    /\ LET p == get_language_parser(patch_language)
           d == get_language_parser(TagLowerDiff)
       IN  IF p = "ValueError" \/ d = "ValueError"
           THEN /\ raised' = "ValueError"
                /\ pc' = "done"
                /\ UNCHANGED patch_parser
           ELSE /\ patch_parser' = p
                /\ pc' = "parse"
                /\ UNCHANGED raised
    /\ UNCHANGED <<inputs, queryOrder, run, first_result, parsed, hunks,
                   origin, block_captures, bi, blockLocals, hunkLocals>>

\* tree = diff_parser.parse(patch); hunks = []; the blocks query
ParseTree ==
    /\ pc = "parse"
    /\ parsed' = TRUE
    /\ hunks' = <<>>
    /\ origin' = <<>>
    /\ block_captures' = BlockCaptures(patch, queryOrder)
    /\ bi' = 1
    /\ pc' = "block"
    /\ UNCHANGED <<inputs, queryOrder, run, first_result, raised,
                   patch_parser, blockLocals, hunkLocals>>

\* The head of the loop over block_captures: the file names and the hunk
\* nodes of the block, sorted.
BeginBlock ==
    /\ pc = "block"
    /\ bi <= Len(block_captures)
    /\ LET block_node == block_captures[bi].node
           file_captures == FileCaptures(block_node, queryOrder)
       IN  /\ old_file' = FileNamed(file_captures, "old_file")
           /\ new_file' = FileNamed(file_captures, "new_file")
           /\ hunk_nodes' =
                  SortHunkNodes(Captures(Positioned(block_node.hunks),
                                         queryOrder))
    /\ hi' = 1
    /\ pc' = "hunk"
    /\ UNCHANGED <<inputs, queryOrder, run, first_result, raised, parsed,
                   patch_parser, hunks, origin, block_captures, bi,
                   hunkLocals>>

\* A mutant of HunkRaises: the exception is caught by the except clause
\* around the loop over the blocks, which returns [].
HunkRaisesAborts ==
    /\ pc = "hunk"
    /\ hi <= Len(hunk_nodes)
    /\ LineLoopRaises(LineCaptures(hunk_nodes[hi].node, queryOrder))
    /\ hunks' = <<>>
    /\ origin' = <<>>
    /\ pc' = "done"
    /\ UNCHANGED <<inputs, queryOrder, run, first_result, raised, parsed,
                   patch_parser, block_captures, bi, blockLocals,
                   hunkLocals>>

\* int() raises in the loop over line_captures: the except clause of the
\* block logs the error and continues with the next block.
HunkRaises ==
    /\ pc = "hunk"
    /\ hi <= Len(hunk_nodes)
    /\ LineLoopRaises(LineCaptures(hunk_nodes[hi].node, queryOrder))
    /\ bi' = bi + 1
    /\ pc' = "block"
    /\ UNCHANGED <<inputs, queryOrder, run, first_result, raised, parsed,
                   patch_parser, hunks, origin, block_captures, blockLocals,
                   hunkLocals>>

\* old_line is None or new_line is None: the hunk is logged and skipped.
HunkWithoutRange ==
    /\ pc = "hunk"
    /\ hi <= Len(hunk_nodes)
    /\ LET line_captures == LineCaptures(hunk_nodes[hi].node, queryOrder)
       IN  /\ ~LineLoopRaises(line_captures)
           /\ \/ LineStart(line_captures, "old_line") = None
              \/ LineStart(line_captures, "new_line") = None
    /\ hi' = hi + 1
    /\ UNCHANGED <<inputs, queryOrder, run, first_result, pc, raised, parsed,
                   patch_parser, hunks, origin, block_captures, bi, old_file,
                   new_file, hunk_nodes, hunkLocals>>

\* The hunk has both starts; without a changes node it is skipped, with one
\* the loop over its children starts.
HunkHeader ==
    /\ pc = "hunk"
    /\ hi <= Len(hunk_nodes)
    /\ LET hunk_node == hunk_nodes[hi].node
           line_captures == LineCaptures(hunk_node, queryOrder)
       IN  /\ ~LineLoopRaises(line_captures)
           /\ LineStart(line_captures, "old_line") # None
           /\ LineStart(line_captures, "new_line") # None
           /\ old_line' = LineStart(line_captures, "old_line")[1]
           /\ new_line' = LineStart(line_captures, "new_line")[1]
           /\ IF hunk_node.body = <<>>
              THEN /\ hi' = hi + 1
                   /\ UNCHANGED <<pc, changes, change_nodes, ci>>
              ELSE /\ changes' = <<>>
                   /\ change_nodes' = hunk_node.body
                   /\ ci' = 1
                   /\ pc' = "change"
                   /\ UNCHANGED hi
    /\ UNCHANGED <<inputs, queryOrder, run, first_result, raised, parsed,
                   patch_parser, hunks, origin, block_captures, bi, old_file,
                   new_file, hunk_nodes>>

\* One turn of the loop over change_nodes.
ProcessChange ==
    /\ pc = "change"
    /\ ci <= Len(change_nodes)
    /\ LET text == ChangeText(change_nodes[ci])
       IN  IF StartsWith(text, "+")
           THEN /\ changes' =
                       Append(changes,
                              Change(ZeroBased(new_line), DropFirst(text),
                                     Addition,
                                     parse_line(patch_parser, DropFirst(text),
                                                queryOrder,
                                                Some(DropFirst(text))
                                                    = failing_text)))
                /\ new_line' = Advance(new_line)
                /\ UNCHANGED old_line
           ELSE IF StartsWith(text, "-")
           THEN /\ changes' =
                       Append(changes,
                              Change(ZeroBased(old_line), DropFirst(text),
                                     Deletion,
                                     parse_line(patch_parser, DropFirst(text),
                                                queryOrder,
                                                Some(DropFirst(text))
                                                    = failing_text)))
                /\ old_line' = Advance(old_line)
                /\ UNCHANGED new_line
           ELSE /\ old_line' = Advance(old_line)
                /\ new_line' = Advance(new_line)
                /\ UNCHANGED changes
    /\ ci' = ci + 1
    /\ UNCHANGED <<inputs, queryOrder, run, first_result, pc, raised, parsed,
                   patch_parser, hunks, origin, block_captures, bi,
                   blockLocals, change_nodes>>

\* hunks.append(Hunk(old_file, new_file, changes))
AppendHunk ==
    /\ pc = "change"
    /\ ci > Len(change_nodes)
    /\ hunks' = Append(hunks, Hunk(old_file, new_file, changes))
    /\ origin' = Append(origin, <<block_captures[bi].start_byte,
                                  hunk_nodes[hi].start_byte>>)
    /\ hi' = hi + 1
    /\ pc' = "hunk"
    /\ UNCHANGED <<inputs, queryOrder, run, first_result, raised, parsed,
                   patch_parser, block_captures, bi, old_file, new_file,
                   hunk_nodes, hunkLocals>>

\* The loop over hunk_nodes ends: the next block.
EndBlock ==
    /\ pc = "hunk"
    /\ hi > Len(hunk_nodes)
    /\ bi' = bi + 1
    /\ pc' = "block"
    /\ UNCHANGED <<inputs, queryOrder, run, first_result, raised, parsed,
                   patch_parser, hunks, origin, block_captures, blockLocals,
                   hunkLocals>>

\* The loop over block_captures ends: return hunks.
Return ==
    /\ pc = "block"
    /\ bi > Len(block_captures)
    /\ pc' = "done"
    /\ UNCHANGED <<inputs, queryOrder, run, first_result, raised, parsed,
                   patch_parser, hunks, origin, block_captures, bi,
                   blockLocals, hunkLocals>>

\* The caller runs parse_diff_patch again on the same bytes and tag; the
\* queries may return their captures in another order.
Rerun ==
    /\ pc = "done"
    /\ run = 1
    /\ run' = 2
    /\ first_result' = Some([raised |-> raised, hunks |-> hunks])
    /\ queryOrder' \in QueryOrders
    /\ pc' = "start"
    /\ raised' = "none"
    /\ parsed' = FALSE
    /\ patch_parser' = "none"
    /\ hunks' = <<>>
    /\ origin' = <<>>
    /\ block_captures' = <<>>
    /\ bi' = 0
    /\ old_file' = None
    /\ new_file' = None
    /\ hunk_nodes' = <<>>
    /\ hi' = 0
    /\ old_line' = 0
    /\ new_line' = 0
    /\ changes' = <<>>
    /\ change_nodes' = <<>>
    /\ ci' = 0
    /\ UNCHANGED inputs

Next ==
    \/ GetParsers
    \/ ParseTree
    \/ BeginBlock
    \/ HunkRaises
    \/ HunkWithoutRange
    \/ HunkHeader
    \/ ProcessChange
    \/ AppendHunk
    \/ EndBlock
    \/ Return
    \/ Rerun

Spec == Init /\ [][Next]_vars

SpecLines == InitLines /\ [][Next]_vars

SpecErrors == InitErrors /\ [][Next]_vars

\* ------------------------------------------------------------ properties
\* parse_diff_patch has returned its list to the caller.
Returned == pc = "done" /\ raised = "none"

\* A body line whose first character is the addition or deletion marker.
IsMarked(line) == line # <<>> /\ line[1] \in {"+", "-"}

\* The body lines the loop over change_nodes has been through.
Processed == 1..(ci - 1)

\* The starts the header of the hunk in hand gives.
OldStart == RangeStart(hunk_nodes[hi].node.old_range).val
NewStart == RangeStart(hunk_nodes[hi].node.new_range).val
StartOf(type) == IF type = Addition THEN NewStart ELSE OldStart

\* The changes before the k-th that are of its type.
EarlierOfType(k) == {j \in 1..(k - 1) : changes[j].type = changes[k].type}

\* The places <<block, hunk>> of the hunk headers of a tree, in source order.
RECURSIVE HeaderPlacesFrom(_, _)
HeaderPlacesFrom(tree, b) ==
    IF b > Len(tree) THEN <<>>
    ELSE [h \in 1..Len(tree[b].hunks) |-> <<b, h>>]
         \o HeaderPlacesFrom(tree, b + 1)

HeaderPlaces(tree) == HeaderPlacesFrom(tree, 1)

\* A location header without an old or a new range, or with a start that
\* int() does not parse.
Malformed(hunk) ==
    \/ hunk.old_range = <<>>
    \/ hunk.new_range = <<>>
    \/ ~RangeStart(hunk.old_range).ok
    \/ ~RangeStart(hunk.new_range).ok

MalformedPlaces(tree) ==
    UNION {{<<b, h>> : h \in {h \in 1..Len(tree[b].hunks) :
                                  Malformed(tree[b].hunks[h])}} :
              b \in 1..Len(tree)}

\* Every Change built so far in this call.
AllChanges ==
    {changes[k] : k \in 1..Len(changes)} \cup
    UNION {{hunks[n].changes[k] : k \in 1..Len(hunks[n].changes)} :
              n \in 1..Len(hunks)}

KindsAndLines(chs) == [k \in 1..Len(chs) |-> <<chs[k].type, chs[k].line>>]

\* C1: the list returned holds one Hunk per hunk header of the patch, in the
\* order of the headers in the byte stream, across blocks and within a block.
C1_OneHunkPerHeaderInOrder == Returned => origin = HeaderPlaces(patch)

\* C2: the Changes of a hunk are as many as the body lines whose first
\* character is "+" or "-": a context line produces no Change, whatever
\* follows its leading whitespace.
C2_ChangesAreTheMarkedLines ==
    pc = "change" =>
        Len(changes) =
            Cardinality({i \in Processed : IsMarked(change_nodes[i])})

\* C3, as stated: in a hunk, the lines of the Additions are new_start-1,
\* new_start, ... and those of the Deletions old_start-1, old_start, ...,
\* for any interleaving of addition, deletion and context lines.
C3_LinesConsecutiveFromStart ==
    pc = "change" =>
        \A k \in 1..Len(changes) :
            changes[k].line =
                StartOf(changes[k].type) - 1 + Cardinality(EarlierOfType(k))

\* C3, amended: in a hunk, the lines of the Additions increase strictly and
\* start at new_start-1 or above, and they are exactly new_start-1,
\* new_start, ... when no context line is among the body lines gone through;
\* the same for the Deletions and old_start.
C3_LinesIncreaseFromStart ==
    pc = "change" =>
        \A k \in 1..Len(changes) :
            /\ changes[k].line >= StartOf(changes[k].type) - 1
            /\ \A j \in EarlierOfType(k) : changes[j].line < changes[k].line
            /\ (\A i \in Processed : IsMarked(change_nodes[i])) =>
                   changes[k].line =
                       StartOf(changes[k].type) - 1
                           + Cardinality(EarlierOfType(k))

\* Two Additions of a hunk with a context line between them: their lines are
\* not consecutive.
C3_Witness ==
    /\ pc = "change"
    /\ \E k \in 1..Len(changes) : \E j \in EarlierOfType(k) :
           /\ changes[k].type = Addition
           /\ changes[k].line > changes[j].line + 1
    /\ \E i \in Processed : ~IsMarked(change_nodes[i])

\* C4, as stated: the scenario patch yields one hunk of three changes, a
\* Deletion at line 0, an Addition at line 1, an Addition at line 2.
C4_ScenarioDeletionAtZero ==
    (Returned /\ patch = ScenarioPatch) =>
        /\ Len(hunks) = 1
        /\ KindsAndLines(hunks[1].changes) =
               <<<<Deletion, 0>>, <<Addition, 1>>, <<Addition, 2>>>>

\* C4, amended: the scenario patch yields one hunk of three changes, a
\* Deletion at line 1 (the context line before it advances the old side
\* too), an Addition at line 1, an Addition at line 2.
C4_ScenarioDeletionAtOne ==
    (Returned /\ patch = ScenarioPatch) =>
        /\ Len(hunks) = 1
        /\ KindsAndLines(hunks[1].changes) =
               <<<<Deletion, 1>>, <<Addition, 1>>, <<Addition, 2>>>>

C4_Witness ==
    /\ Returned
    /\ patch = ScenarioPatch
    /\ Len(hunks) = 1
    /\ Len(hunks[1].changes) = 3

\* C5: a hunk header that lacks a range, or whose start is no integer, makes
\* parse_diff_patch fail with an error raised to the caller, and no Hunk of
\* the result comes from such a header.
C5_MalformedHeaderRaises ==
    (pc = "done" /\ parsed /\ MalformedPlaces(patch) # {}) =>
        /\ raised # "none"
        /\ \A n \in 1..Len(origin) : origin[n] \notin MalformedPlaces(patch)

\* C6: with a language tag that is not a supported language the call fails
\* with the unsupported-language error, raised to the caller before the
\* patch is parsed.
C6_UnsupportedTagRaises ==
    (pc = "done" /\ ~is_language_supported(patch_language)) =>
        raised = "ValueError" /\ ~parsed

\* C7: the second of two calls on the same patch and tag ends as the first
\* did, whatever order the queries return their captures in.
C7_RerunSameResult ==
    (pc = "done" /\ run = 2) =>
        first_result = Some([raised |-> raised, hunks |-> hunks])

\* C8, as stated: the text of a Change is the content of its line behind the
\* marker with leading and trailing whitespace removed.
C8_TextStrippedBothSides ==
    (pc = "change" /\ ci > 1 /\ IsMarked(change_nodes[ci - 1])) =>
        /\ changes # <<>>
        /\ changes[Len(changes)].text = Strip(Tail(change_nodes[ci - 1]))

\* C8, amended: the text of the Change of a line that begins with "+" or "-"
\* is the content of the line behind the marker with trailing whitespace
\* removed; whitespace that follows the marker (the indentation) is kept.
C8_TextKeepsIndentation ==
    (pc = "change" /\ ci > 1 /\ IsMarked(change_nodes[ci - 1])) =>
        /\ changes # <<>>
        /\ changes[Len(changes)].text = RStrip(Tail(change_nodes[ci - 1]))

\* The Change of an indented addition that ends in whitespace: its text
\* begins with whitespace and does not end with it.
C8_Witness ==
    /\ pc = "change"
    /\ ci > 1
    /\ change_nodes[ci - 1] = LineAdditionIndented
    /\ changes # <<>>
    /\ LET text == changes[Len(changes)].text
       IN  /\ text # <<>>
           /\ Head(text) \in Whitespace
           /\ text[Len(text)] \notin Whitespace

\* C9: the identifiers of a Change are in strictly ascending order of
\* character, whatever order the identifier query returned its captures in.
C9_IdentifiersAscending ==
    \A c \in AllChanges :
        \A i, j \in 1..Len(c.identifiers) :
            i < j => c.identifiers[i].character < c.identifiers[j].character

\* A Change of two identifiers whose captures came in reverse order.
C9_Witness ==
    /\ queryOrder = "reverse"
    /\ \E c \in AllChanges : Len(c.identifiers) >= 2

\* C10: the character of an Identifier is an offset into the text of its
\* Change, and the text at that offset begins with the identifier's name,
\* also behind a character of more than one byte.
C10_CharacterIsOffsetOfName ==
    \A c \in AllChanges :
        \A i \in 1..Len(c.identifiers) :
            LET id == c.identifiers[i]
            IN  /\ 0 <= id.character
                /\ id.character < Len(c.text)
                /\ id.character + Len(id.name) <= Len(c.text)
                /\ SubSeq(c.text, id.character + 1,
                          id.character + Len(id.name)) = id.name

\* C11: the line of every Change is non-negative, for every start a hunk
\* header can give, a start of 0 included.
C11_LinesNonNegative == \A c \in AllChanges : c.line >= 0

\* The body line gone through last is one the loop builds a Change from.
LastBuiltChange ==
    /\ pc = "change"
    /\ ci > 1
    /\ \/ StartsWith(Strip(change_nodes[ci - 1]), "+")
       \/ StartsWith(Strip(change_nodes[ci - 1]), "-")

\* The body lines before the i-th that advanced the cursor of a side: those
\* the loop did not take for a change of the other side.
AdvancedBefore(i, other) ==
    Cardinality({n \in 1..(i - 1) :
                    ~StartsWith(Strip(change_nodes[n]), other)})

\* C12: when identifier extraction fails on the text of a change, the change
\* is emitted with the line, text and kind it has without the failure and
\* with no identifiers; the other changes keep their identifiers, and
\* parse_diff_patch does not raise.
C12_ExtractionFailureContained ==
    /\ parsed => raised = "none"
    /\ LastBuiltChange =>
           LET stripped == Strip(change_nodes[ci - 1])
               text == DropFirst(stripped)
               c == changes[Len(changes)]
               found == SortedByCharacter(
                            [i \in 1..Len(IdentifierNodes(text, 1)) |->
                                IdentifierOf(IdentifierNodes(text, 1)[i])])
           IN  /\ changes # <<>>
               /\ c.text = text
               /\ c.type = IF stripped[1] = "+" THEN Addition ELSE Deletion
               /\ c.line = IF stripped[1] = "+"
                           THEN NewStart - 1 + AdvancedBefore(ci - 1, "-")
                           ELSE OldStart - 1 + AdvancedBefore(ci - 1, "+")
               /\ c.identifiers =
                      IF Some(text) = failing_text \/ patch_parser # "python"
                      THEN <<>>
                      ELSE found

\* A hunk in which extraction failed on one change, emitted without
\* identifiers, and another change has its identifiers.
C12_Witness ==
    /\ pc = "change"
    /\ failing_text = Some(FailingText)
    /\ \E k \in 1..Len(changes) :
           changes[k].text = FailingText /\ changes[k].identifiers = <<>>
    /\ \E k \in 1..Len(changes) :
           changes[k].text # FailingText /\ changes[k].identifiers # <<>>

\* C13: the grammar factory returns a parser for a tag exactly when
\* is_language_supported holds of the tag, by case-sensitive match: it fails
\* for a tag that differs from a supported name in letter case only.
C13_FactoryAcceptsTheSupportedTags ==
    /\ get_language_parser(patch_language) # "ValueError"
           <=> is_language_supported(patch_language)
    /\ language_get_language_parser(patch_language) # "ValueError"
           <=> is_language_supported(patch_language)
    /\ pc = "done" =>
           (raised = "none" <=> is_language_supported(patch_language))

\* The body lines before the i-th that are not lines of the other side: the
\* lines of the side itself and the context lines.
CountedBefore(i, other) ==
    Cardinality({n \in 1..(i - 1) : ~StartsWith(change_nodes[n], other)})

\* C14: walking the body of a hunk, an addition gets the line new_start - 1
\* plus the number of addition and context lines before it, a deletion the
\* line old_start - 1 plus the number of deletion and context lines before
\* it; an addition does not advance the old cursor, nor a deletion the new.
C14_LineCountsEarlierLines ==
    pc = "change" =>
        /\ old_line = OldStart + CountedBefore(ci, "+")
        /\ new_line = NewStart + CountedBefore(ci, "-")
        /\ (ci > 1 /\ IsMarked(change_nodes[ci - 1])) =>
               /\ changes # <<>>
               /\ changes[Len(changes)].line =
                      IF change_nodes[ci - 1][1] = "+"
                      THEN NewStart - 1 + CountedBefore(ci - 1, "-")
                      ELSE OldStart - 1 + CountedBefore(ci - 1, "+")

\* Processing the hunk raises: a range with text whose start is no integer.
Raising(hunk) ==
    \/ hunk.old_range # <<>> /\ ~RangeStart(hunk.old_range).ok
    \/ hunk.new_range # <<>> /\ ~RangeStart(hunk.new_range).ok

\* The hunk yields a Hunk: both ranges and a body.
Yielding(hunk) ==
    /\ ~Raising(hunk)
    /\ hunk.old_range # <<>>
    /\ hunk.new_range # <<>>
    /\ hunk.body # <<>>

\* The places of the Hunks a block yields: those of its hunks before the
\* first one that raises, in source order.
RECURSIVE PlacesOfBlock(_, _, _)
PlacesOfBlock(b, hs, h) ==
    IF h > Len(hs) \/ Raising(hs[h]) THEN <<>>
    ELSE (IF Yielding(hs[h]) THEN <<<<b, h>>>> ELSE <<>>)
         \o PlacesOfBlock(b, hs, h + 1)

\* The places of the Hunks the first n captured blocks yield.
RECURSIVE PlacesOfBlocks(_, _)
PlacesOfBlocks(captures, n) ==
    IF n = 0 THEN <<>>
    ELSE PlacesOfBlocks(captures, n - 1)
         \o PlacesOfBlock(captures[n].start_byte, captures[n].node.hunks, 1)

\* C15: when processing a hunk raises inside a block, parse_diff_patch still
\* returns normally; the Hunks of earlier blocks and of earlier hunks of the
\* block are kept, in order, the failing hunk and the later hunks of the
\* block are absent, and the later blocks are processed.
C15_BlockErrorKeepsEarlierHunks ==
    /\ (parsed /\ pc = "done") => raised = "none"
    /\ pc = "block" => origin = PlacesOfBlocks(block_captures, bi - 1)
    /\ (parsed /\ pc = "done") =>
           origin = PlacesOfBlocks(block_captures, Len(block_captures))
    /\ Len(hunks) = Len(origin)
    /\ \A n \in 1..Len(hunks) :
           /\ hunks[n].old_file = Some(Strip(patch[origin[n][1]].old_file))
           /\ hunks[n].new_file = Some(Strip(patch[origin[n][1]].new_file))

\* A block whose second hunk raises after its first one yielded a Hunk, and
\* a block processed after it that yielded a Hunk too.
C15_Witness ==
    /\ Returned
    /\ \E n \in 1..Len(origin) : \E m \in (n + 1)..Len(origin) :
           LET b == origin[n][1]
           IN  /\ origin[n][2] = 1
               /\ Len(patch[b].hunks) = 2
               /\ Raising(patch[b].hunks[2])
               /\ origin[m][1] # b

====
